---- MODULE Spec2Model ----
(***************************************************************************)
(* A model of icinga-kubernetes:                                           *)
(*   - PromMetricSync.Run (pkg/metrics/metrics.go): the poller goroutines, *)
(*     the four unbuffered granularity channels, the upsert streamers and  *)
(*     the errgroup that binds them;                                       *)
(*   - PodSync.Sync (controller) against the pod, container_logs and       *)
(*     pod_metrics tables;                                                 *)
(*   - Pvc.Obtain / Pvc.Relations (schema v1).                             *)
(* Strings are TLA+ strings, "+" of Go is \o.  sha1.Sum / types.Checksum   *)
(* are modelled as an injective tagging of the hashed string.              *)
(***************************************************************************)
EXTENDS Integers, Sequences, FiniteSets, TLC

VARIABLES
    started,      \* the poller goroutines Run started (g.Go, one per PromQuery)
    tsdb,         \* the series and sample times the metrics backend answers with
    pc,           \* pc[t]: position of poller t in its loop
    rem,          \* rem[t]: series of the current result not yet ranged over
    vts,          \* vts[t]: timestamp (ms) of the samples of the current result
    rec,          \* rec[t]: the record poller t offers on its channel
    src,          \* src[t]: the sample rec[t] was built from
    perr,         \* perr[t]: the error poller t returned
    spc,          \* spc[g]: position of the streamer of granularity g
    serr,         \* serr[g]: the error the streamer of g returned
    batch,        \* batch[g]: records the streamer of g holds, not yet written
    table,        \* table[g]: rows of prometheus_<g>_metric
    received,     \* received[g]: every record the streamer of g received, in order
    written,      \* written[g]: the batches the streamer of g wrote, in order
    handed,       \* handed[t]: the records poller t handed over, with cycle and series
    closed,       \* closed[g]: the channel of g was closed by its producer
    gerr,         \* errgroup: g.err
    firstRep,     \* the task whose error errOnce recorded ("-": none yet)
    encountered,  \* the first error of any task that is no cancellation error
    ctxDone,      \* the errgroup context is cancelled
    parentDone,   \* the caller's context is cancelled
    runReturned,  \* Run has returned
    runErr,       \* the error Run returned
    polls,        \* number of backend queries answered so far
    pod,            \* rows of table pod
    container_logs, \* rows of table container_logs
    pod_metrics,    \* rows of table pod_metrics
    lastSync,       \* the Sync call that returned last: its arguments and error
    clean,          \* clean[k]: every Sync for key k so far was an upsert that returned nil
    sample,         \* one series as two successive polls sample it
    made,           \* the records the two polls produced, in order
    polled,         \* number of the samples polled
    stored,         \* number of the records of made upserted
    pvcs,           \* pvcs[i]: a *Pvc entity, as NewPvc and Obtain left it
    hist,           \* hist[i]: the raw objects Obtain has mapped into pvcs[i], in order
    before,         \* before[i]: the primary fields of pvcs[i] when its last Obtain began
    panicked,       \* Obtain has dereferenced a nil pointer
    obtains,        \* number of Obtain calls so far
    store           \* tables pvc, pvc_condition, label, pvc_label, and the last resync

pipeVars == <<started, tsdb, pc, rem, vts, rec, src, perr, spc, serr, batch, table,
              received, written, handed, closed, gerr, firstRep, encountered,
              ctxDone, parentDone, runReturned, runErr, polls>>

reconVars == <<pod, container_logs, pod_metrics, lastSync, clean>>

upsertVars == <<sample, made, polled, stored>>

pvcVars == <<pvcs, hist, before, panicked, obtains, store>>

vars == <<pipeVars, reconVars, upsertVars, pvcVars>>

----------------------------------------------------------------------------
(* Bounds *)

MaxPolls == 2      \* backend queries answered in one behaviour
MaxSeries == 2     \* series in one query result
MaxBatch == 2      \* the streamer's configured maximum batch size
MaxArrivals == 4   \* records a producer sends in the stream specification
MaxObtains == 2    \* Obtain calls in one behaviour

----------------------------------------------------------------------------
(* Query descriptors: a selection of the PromQuery literals of Run *)

Granularities == {"cluster", "node", "pod", "container"}

PromQuery(g, c, l) == [gran |-> g, metricCategory |-> c, nameLabel |-> l]

promQueriesCluster ==
    { PromQuery("cluster", "network.received.bytes", ""),
      PromQuery("cluster", "network.received.bytes.bydevice", "device") }

promQueriesNode ==
    { PromQuery("node", "cpu.usage", ""),
      PromQuery("node", "filesystem.usage", "mountpoint") }

promQueriesPod == { PromQuery("pod", "cpu.usage", "") }

promQueriesContainer == { PromQuery("container", "cpu.request", "") }

Pollers == promQueriesCluster \cup promQueriesNode \cup promQueriesPod
             \cup promQueriesContainer

----------------------------------------------------------------------------
(* Errors *)

Err(k, who) == [kind |-> k, task |-> who]
Nil == Err("nil", "-")
Canceled == Err("context canceled", "-")                \* ctx.Err()
QueryErr(t) == Err("error querying Prometheus", t.gran \o ":" \o t.metricCategory)
QueryCanceled(t) ==                                     \* Wrap(ctx error)
    Err("error querying Prometheus: context canceled", t.gran \o ":" \o t.metricCategory)
WriteErr(g) == Err("upsert failed", g)
WriteCanceled(g) == Err("upsert: context canceled", g)

IsCancellation(e) ==
    e.kind \in { "context canceled", "error querying Prometheus: context canceled",
                 "upsert: context canceled" }

----------------------------------------------------------------------------
(* Samples *)

LabelNames == {"node", "instance", "namespace", "pod", "container", "device",
               "mountpoint"}
NoLabels == [l \in LabelNames |-> ""]

NaN == <<"nan", 0>>
Num(n) == <<"num", n>>
Values == {Num(1), Num(2), NaN}

\* model.SampleValue.String(): FormatFloat(v, 'f', -1, 64)
ValueString(v) == IF v[1] = "nan" THEN "NaN" ELSE ToString(v[2])

SampleTimes == {-60000, -1, 0, 59999, 60000}

\* the label sets a query can return: the labels of its `by` clause, with
\* a label absent where the underlying series does not carry it
Metrics(q) ==
    CASE q.gran = "cluster" ->
           { ("device" :> "eth0") @@ NoLabels, ("device" :> "eth1") @@ NoLabels }
      [] q.gran = "node" /\ q.nameLabel = "" ->
           { ("node" :> "n1") @@ NoLabels, ("instance" :> "n2") @@ NoLabels, NoLabels }
      [] q.gran = "node" /\ q.nameLabel # "" ->
           { ("node" :> "n1") @@ ("mountpoint" :> "/") @@ NoLabels,
             ("node" :> "n1") @@ ("mountpoint" :> "/var") @@ NoLabels,
             ("mountpoint" :> "/") @@ NoLabels }
      [] q.gran = "pod" ->
           { ("namespace" :> "default") @@ ("pod" :> "web-1") @@ NoLabels,
             ("namespace" :> "default") @@ NoLabels }
      [] q.gran = "container" ->
           { ("namespace" :> "default") @@ ("pod" :> "web-1")
                 @@ ("container" :> "app") @@ NoLabels,
             ("namespace" :> "default") @@ ("pod" :> "web-1") @@ NoLabels }

Series(m, v) == [Metric |-> m, Value |-> v]

\* a backend that holds every kind of series
AllSeries == [q \in Pollers |-> { Series(m, v) : m \in Metrics(q), v \in {Num(1), NaN} }]

\* a backend that holds one attributable series per query
PlainSeries ==
    [q \in Pollers |->
        { Series(CHOOSE m \in Metrics(q) :
                    \/ m["device"] = "eth0"
                    \/ m["node"] = "n1" /\ m["mountpoint"] \in {"", "/"}
                    \/ m["pod"] = "web-1" /\ (q.gran = "container" => m["container"] = "app"),
                 Num(1)) }]

----------------------------------------------------------------------------
(* Records: the body of the range loops of the four kinds of poller *)

\* Go's % truncates toward zero
GoRem(a, b) == IF a >= 0 THEN a % b ELSE -((-a) % b)

MinuteMillis == 60000

\* (UnixNano() - UnixNano() % (60 * 1000000000)) / 1000000, where UnixNano()
\* of a model.Time is its milliseconds times 1000000: the factor cancels
TimestampNoTrunc(ms) == ms
Timestamp(ms) == ms - GoRem(ms, MinuteMillis)

Sha1(str) == <<"sha1", str>>

\* name := ""; if promQuery.nameLabel != "" { name = res.Metric[nameLabel] }
Name(q, m) == IF q.nameLabel # "" THEN m[q.nameLabel] ELSE ""

\* nodeName := res.Metric["node"]; if nodeName == "" { res.Metric["instance"] }
NodeName(m) == IF m["node"] = "" THEN m["instance"] ELSE m["node"]

EntityId(g, m) ==
    CASE g = "cluster" -> Sha1("")
      [] g = "node" -> Sha1(NodeName(m))
      [] g = "pod" -> Sha1(m["namespace"] \o "/" \o m["pod"])
      [] g = "container" ->
           Sha1(m["namespace"] \o "/" \o m["pod"] \o "/" \o m["container"])

\* the `continue` statements at the head of the range loops
Skip(q, s) ==
    \/ ValueString(s.Value) = "NaN"
    \/ q.gran = "pod" /\ s.Metric["pod"] = ""

\* &schemav1.Prometheus<G>Metric{...}
NewMetric(q, s, ms) ==
    [ Id |-> EntityId(q.gran, s.Metric),
      Timestamp |-> Timestamp(ms),
      Category |-> q.metricCategory,
      Name |-> Name(q, s.Metric),
      Value |-> s.Value ]

----------------------------------------------------------------------------
(* The prometheus_<g>_metric tables *)

Key(r) == <<r.Id, r.Timestamp, r.Category, r.Name>>
Row(r) == r

\* INSERT INTO ... VALUES (...) ON DUPLICATE KEY UPDATE value=VALUES(value)
Upsert(tbl, r) ==
    IF \E x \in tbl : Key(x) = Key(r)
    THEN { IF Key(x) = Key(r) THEN [x EXCEPT !.Value = r.Value] ELSE x : x \in tbl }
    ELSE tbl \cup {Row(r)}

RECURSIVE UpsertAll(_, _)
UpsertAll(tbl, rs) ==
    IF rs = <<>> THEN tbl ELSE UpsertAll(Upsert(tbl, Head(rs)), Tail(rs))

----------------------------------------------------------------------------
(* errgroup *)

Streamers == Granularities
TaskName(t) == t.gran \o ":" \o t.metricCategory

----------------------------------------------------------------------------
(* PodSync, the reconciler of pods: its inputs, tables and rows *)

Namespaces == {"default"}
PodNames == {"web-1"}
ContainerNames == {"app", "sidecar"}
LogTexts == {"started", "ready"}

\* the raw objects of the notifications: *corev1.Pod
Pods ==
    [Namespace : Namespaces, Name : PodNames, UID : {"u1"},
     Phase : {"Running", "Succeeded"},
     Containers : {<<"app">>, <<"app", "sidecar">>}]

\* what PodMetricses(ns).Get answers: the typed client hands back a non-nil
\* result also with an error, then without containers
MetricsReplies ==
    { [err |-> e, Containers |-> cs] :
        e \in BOOLEAN, cs \in {<<>>, <<"app">>} }
PodMetricsContainers(reply) == IF reply.err THEN <<>> ELSE reply.Containers

\* the informer keys handed to Sync, as their "/"-separated parts
SyncKeys == {<<ns, n>> : ns \in Namespaces, n \in PodNames} \cup {<<"default", "web-1", "x">>}

\* cache.SplitMetaNamespaceKey
SplitMetaNamespaceKey(key) ==
    CASE Len(key) = 1 -> [namespace |-> "", name |-> key[1], err |-> Nil]
      [] Len(key) = 2 -> [namespace |-> key[1], name |-> key[2], err |-> Nil]
      [] OTHER -> [namespace |-> "", name |-> "", err |-> Err("unexpected key format", "-")]

\* strcase.Snake on the phases that occur
Snake(str) ==
    CASE str = "Running" -> "running"
      [] str = "Succeeded" -> "succeeded"
      [] str = "Pending" -> "pending"
      [] str = "Bound" -> "bound"
      [] str = "Lost" -> "lost"
      [] OTHER -> str

\* schemav1.NewPodFromK8s: the row of table pod
NewPodFromK8s(obj) ==
    [name |-> obj.Name, namespace |-> obj.Namespace, uid |-> obj.UID,
     phase |-> Snake(obj.Phase)]

\* schemav1.ContainerLog, the row of container_logs
ContainerLog(obj, c, logs) ==
    [namespace |-> obj.Namespace, pod_name |-> obj.Name, container_name |-> c,
     logs |-> logs]

\* schemav1.PodMetrics, the row of pod_metrics (the usage columns left out)
PodMetrics(obj, c) ==
    [namespace |-> obj.Namespace, pod_name |-> obj.Name, container_name |-> c]

\* the unique keys of the three tables
PodKey(r) == <<r.namespace, r.name>>
DependentKey(r) == <<r.namespace, r.pod_name, r.container_name>>

\* INSERT ... ON DUPLICATE KEY UPDATE of every column, for a set of rows
\* with distinct keys
UpsertPods(tbl, rows) ==
    {x \in tbl : \A r \in rows : PodKey(x) # PodKey(r)} \cup rows
UpsertDependents(tbl, rows) ==
    {x \in tbl : \A r \in rows : DependentKey(x) # DependentKey(r)} \cup rows

\* DELETE FROM pod WHERE namespace=? AND name=?
DeletePod(tbl, ns, n) == {x \in tbl : ~(x.namespace = ns /\ x.name = n)}
\* a delete statement that removes nothing
DeleteNothing(tbl, ns, n) == tbl
\* DELETE FROM <t> WHERE namespace=? AND pod_name=?
DeleteDependents(tbl, ns, n) == {x \in tbl : ~(x.namespace = ns /\ x.pod_name = n)}

DbErr(stmt) == Err("database error", stmt)
ApiErr(call) == Err("api error", call)

NoPod == [Namespace |-> "", Name |-> "", UID |-> "", Phase |-> "", Containers |-> <<>>]
NoSync == [key |-> <<>>, exists |-> FALSE, obj |-> NoPod, metrics |-> <<>>,
           failed |-> {}, err |-> Nil, replay |-> FALSE]

----------------------------------------------------------------------------
(* Pvc (schema v1): the raw objects and the entity *)

\* a Go pointer: <<>> is nil, <<x>> points to x
NilPtr == <<>>
Ptr(x) == <<x>>

Entities == {1, 2}

PvcLabelSets ==
    { {}, {[Name |-> "app", Value |-> "Web"], [Name |-> "App", Value |-> "web"]} }

\* the raw objects: *kcorev1.PersistentVolumeClaim
RawPvcs ==
    [Namespace : {"default"}, Name : {"data", "logs"},
     Phase : {"Pending", "Bound"}, VolumeName : {"pv-1"},
     VolumeMode : {NilPtr, Ptr("Filesystem")},
     StorageClassName : {NilPtr, Ptr("standard")},
     Conditions : {<<[Type |-> "Resizing", Status |-> "True"]>>},
     Labels : PvcLabelSets]

\* types.Checksum: the sha1 of the string
Checksum(str) == Sha1(str)

\* strings.ToLower on the label strings that occur
ToLower(str) ==
    CASE str = "app:Web" -> "app:web"
      [] str = "App:web" -> "app:web"
      [] OTHER -> str

\* &Pvc{}
NewPvc ==
    [Namespace |-> "", Name |-> "", Id |-> <<>>, Phase |-> "", VolumeName |-> "",
     VolumeMode |-> "", StorageClass |-> "", Conditions |-> <<>>, Labels |-> <<>>,
     PvcLabels |-> <<>>]

Primary(p) == <<p.Id, p.Phase, p.VolumeName, p.VolumeMode, p.StorageClass>>

\* no resync yet
NoResync == [Id |-> <<>>, done |-> 0]

\* the tables of the Pvc kind, empty
EmptyStore ==
    [pvc |-> {}, pvc_condition |-> {}, label |-> {}, pvc_label |-> {}, last |-> NoResync]

InitPvc ==
    /\ store = EmptyStore
    /\ pvcs = [i \in Entities |-> NewPvc]
    /\ hist = [i \in Entities |-> <<>>]
    /\ before = [i \in Entities |-> Primary(NewPvc)]
    /\ panicked = FALSE
    /\ obtains = 0

\* a series sampled twice: query, labels, and the value and time of each poll
Samples ==
    { [q |-> q, Metric |-> m, Value |-> v, ms |-> t] :
        q \in Pollers, m \in UNION {Metrics(x) : x \in Pollers},
        v \in Values \X Values, t \in SampleTimes \X SampleTimes }
NoSamples == [q |-> PromQuery("cluster", "-", ""), Metric |-> NoLabels,
              Value |-> <<Num(0), Num(0)>>, ms |-> <<0, 0>>]

InitUpsert ==
    /\ sample = NoSamples
    /\ made = <<>>
    /\ polled = 0
    /\ stored = 0

InitRecon ==
    /\ pod = {}
    /\ container_logs = {}
    /\ pod_metrics = {}
    /\ lastSync = NoSync
    /\ clean = [k \in SyncKeys |-> TRUE]

----------------------------------------------------------------------------
(* The state of Run after construction *)

NoRecord == [Id |-> Sha1("-"), Timestamp |-> 0, Category |-> "-", Name |-> "-",
             Value |-> Num(0)]
NoSample == [Metric |-> NoLabels, Value |-> Num(0), ms |-> 0]

InitPipe(S, G, db) ==
    /\ started = S
    /\ tsdb = db
    /\ pc = [t \in Pollers |-> IF t \in S THEN "query" ELSE "off"]
    /\ rem = [t \in Pollers |-> 0]
    /\ vts = [t \in Pollers |-> 0]
    /\ rec = [t \in Pollers |-> NoRecord]
    /\ src = [t \in Pollers |-> NoSample]
    /\ perr = [t \in Pollers |-> Nil]
    /\ spc = [g \in Streamers |-> IF g \in G THEN "recv" ELSE "off"]
    /\ serr = [g \in Streamers |-> Nil]
    /\ batch = [g \in Streamers |-> <<>>]
    /\ table = [g \in Streamers |-> {}]
    /\ received = [g \in Streamers |-> <<>>]
    /\ handed = [t \in Pollers |-> <<>>]
    /\ written = [g \in Streamers |-> <<>>]
    /\ closed = [g \in Streamers |-> FALSE]
    /\ gerr = Nil
    /\ firstRep = "-"
    /\ encountered = Nil
    /\ ctxDone = FALSE
    /\ parentDone = FALSE
    /\ runReturned = FALSE
    /\ runErr = Nil
    /\ polls = 0

\* what a task that fails notes for the history: the first error that is
\* no cancellation
Encounter(e) == IF encountered = Nil /\ ~IsCancellation(e) THEN e ELSE encountered

\* g.errOnce.Do(func() { g.err = err; g.cancel(g.err) }) keeps the first error
KeepLast(old, e) == e
ErrOnce(old, e) == IF old = Nil THEN e ELSE old

\* a task's function returns e: g.Go's wrapper records the error and
\* cancels the context; the order of the tasks' returns is the order in
\* which errOnce sees them
GroupDone(who, e) ==
    /\ gerr' = IF e # Nil THEN ErrOnce(gerr, e) ELSE gerr
    /\ firstRep' = IF e # Nil /\ firstRep = "-" THEN who ELSE firstRep
    /\ ctxDone' = (ctxDone \/ e # Nil)
    /\ encountered' = Encounter(e)

poolVars == <<started, tsdb, reconVars, upsertVars, pvcVars>>
streamVars == <<spc, serr, batch, table, closed>>
histVars == <<received, written, handed>>

----------------------------------------------------------------------------
(* Poller goroutines *)

\* a poller whose function returns nil whatever ended it
PollerReturnsNil(t, e) ==
    /\ perr' = [perr EXCEPT ![t] = Nil]
    /\ pc' = [pc EXCEPT ![t] = "done"]
    /\ rem' = [rem EXCEPT ![t] = 0]
    /\ vts' = [vts EXCEPT ![t] = 0]
    /\ rec' = [rec EXCEPT ![t] = NoRecord]
    /\ src' = [src EXCEPT ![t] = NoSample]
    /\ GroupDone(TaskName(t), Nil)
    /\ UNCHANGED <<poolVars, streamVars, histVars, parentDone,
                   runReturned, runErr, polls>>

\* return errors.Wrap(err, "error querying Prometheus") / return ctx.Err()
PollerReturn(t, e) ==
    /\ perr' = [perr EXCEPT ![t] = e]
    /\ pc' = [pc EXCEPT ![t] = "done"]
    /\ rem' = [rem EXCEPT ![t] = 0]
    /\ vts' = [vts EXCEPT ![t] = 0]
    /\ rec' = [rec EXCEPT ![t] = NoRecord]
    /\ src' = [src EXCEPT ![t] = NoSample]
    /\ GroupDone(TaskName(t), e)
    /\ UNCHANGED <<poolVars, streamVars, histVars, parentDone,
                   runReturned, runErr, polls>>

\* pms.promApiClient.Query(ctx, promQuery.query, time.Time{}) fails; on a
\* cancelled context it cannot succeed
QueryFailure(t) == pc[t] = "query"

QueryFails(t) ==
    /\ QueryFailure(t)
    /\ \E e \in {QueryErr(t)} \cup (IF ctxDone THEN {QueryCanceled(t)} ELSE {}) :
          PollerReturn(t, e)

\* result == nil: `continue`
QueryNil(t) ==
    /\ pc[t] = "query"
    /\ ~ctxDone
    /\ polls < MaxPolls
    /\ polls' = polls + 1
    /\ UNCHANGED <<poolVars, pc, rem, vts, rec, src, perr, streamVars, histVars, gerr,
                   firstRep, ctxDone, parentDone, runReturned, runErr, encountered>>

\* result is a model.Vector of n samples taken at ms
QueryVector(t) ==
    /\ pc[t] = "query"
    /\ ~ctxDone
    /\ polls < MaxPolls
    /\ polls' = polls + 1
    /\ \E n \in 0..MaxSeries, ms \in tsdb.times :
          /\ rem' = [rem EXCEPT ![t] = n]
          /\ vts' = [vts EXCEPT ![t] = ms]
    /\ pc' = [pc EXCEPT ![t] = "range"]
    /\ UNCHANGED <<poolVars, rec, src, perr, streamVars, histVars, gerr, firstRep,
                   ctxDone, parentDone, runReturned, runErr, encountered>>

\* for _, res := range result.(model.Vector): the next sample is skipped or
\* becomes the record offered on the channel; after the last one the
\* poller reaches the select of the sleep
Range(t) ==
    /\ pc[t] = "range"
    /\ IF rem[t] = 0
       THEN /\ pc' = [pc EXCEPT ![t] = "sleep"]
            /\ vts' = [vts EXCEPT ![t] = 0]
            /\ UNCHANGED <<rem, rec, src>>
       ELSE \E s \in tsdb.series[t] :
              /\ rem' = [rem EXCEPT ![t] = rem[t] - 1]
              /\ UNCHANGED vts
              /\ IF Skip(t, s)
                 THEN UNCHANGED <<pc, rec, src>>
                 ELSE /\ rec' = [rec EXCEPT ![t] = NewMetric(t, s, vts[t])]
                      /\ src' = [src EXCEPT ![t] =
                                    [Metric |-> s.Metric, Value |-> s.Value, ms |-> vts[t]]]
                      /\ pc' = [pc EXCEPT ![t] = "send"]
    /\ UNCHANGED <<poolVars, perr, streamVars, histVars, gerr, firstRep,
                   ctxDone, parentDone, runReturned, runErr, encountered, polls>>

\* case <-ctx.Done(): return ctx.Err()  (the select of the send)
SendNoCancel(t) == FALSE
SendCancelled(t) == ctxDone

SendCancel(t) ==
    /\ pc[t] = "send"
    /\ SendCancelled(t)
    /\ PollerReturn(t, Canceled)

\* case <-time.After(time.Second * 55):
SleepElapsed(t) ==
    /\ pc[t] = "sleep"
    /\ pc' = [pc EXCEPT ![t] = "query"]
    /\ UNCHANGED <<poolVars, rem, vts, rec, src, perr, streamVars, histVars, gerr,
                   firstRep, ctxDone, parentDone, runReturned, runErr, encountered,
                   polls>>

\* case <-ctx.Done(): return ctx.Err()  (the select of the sleep)
SleepCancel(t) ==
    /\ pc[t] = "sleep"
    /\ ctxDone
    /\ PollerReturn(t, Canceled)

----------------------------------------------------------------------------
(* The Batched Upsert Streamer: database.NewUpsert(...).Stream(ctx, ch) *)

\* Stream returns e
StreamReturn(g, e) ==
    /\ serr' = [serr EXCEPT ![g] = e]
    /\ spc' = [spc EXCEPT ![g] = "done"]
    /\ GroupDone(g, e)

\* a batch that is never taken to be full
BatchNeverFull(n) == FALSE

\* a batch of n records has reached the configured maximum size
BatchFull(n) == n >= MaxBatch

\* a record arrives: it joins the batch; a full batch is written next
StreamTake(g, r) ==
    /\ batch' = [batch EXCEPT ![g] = Append(batch[g], r)]
    /\ spc' = [spc EXCEPT ![g] = IF BatchFull(Len(batch[g]) + 1) THEN "write" ELSE "recv"]

\* one upsert statement for the batch; it succeeds as a whole or fails as a
\* whole, and a failure ends Stream with that error
StreamWrite(g) ==
    /\ spc[g] = "write"
    /\ \/ /\ table' = [table EXCEPT ![g] = UpsertAll(table[g], batch[g])]
          /\ batch' = [batch EXCEPT ![g] = <<>>]
          /\ spc' = [spc EXCEPT ![g] = "recv"]
          /\ UNCHANGED <<serr, gerr, firstRep, ctxDone, encountered>>
       \/ /\ \E e \in {WriteErr(g)} \cup (IF ctxDone THEN {WriteCanceled(g)} ELSE {}) :
                StreamReturn(g, e)
          /\ UNCHANGED <<table, batch>>
    /\ UNCHANGED <<poolVars, pc, rem, vts, rec, src, perr, closed, parentDone,
                   runReturned, runErr, polls>>

\* Stream returns at the close without writing what it holds
StreamClosedNoFlush(g) ==
    /\ spc[g] = "recv"
    /\ closed[g]
    /\ StreamReturn(g, Nil)
    /\ UNCHANGED <<poolVars, pc, rem, vts, rec, src, perr, batch, table,
                   closed, parentDone, runReturned, runErr, polls>>

\* the channel is closed: the final partial batch is written, then Stream
\* returns nil
StreamClosed(g) ==
    /\ spc[g] = "recv"
    /\ closed[g]
    /\ IF batch[g] = <<>>
       THEN StreamReturn(g, Nil)
       ELSE /\ spc' = [spc EXCEPT ![g] = "write"]
            /\ UNCHANGED <<serr, gerr, firstRep, ctxDone, encountered>>
    /\ UNCHANGED <<poolVars, pc, rem, vts, rec, src, perr, batch, table,
                   closed, parentDone, runReturned, runErr, polls>>

\* the context is cancelled while Stream waits for a record
StreamCancel(g) ==
    /\ spc[g] = "recv"
    /\ ctxDone
    /\ StreamReturn(g, Canceled)
    /\ UNCHANGED <<poolVars, pc, rem, vts, rec, src, perr, batch, table,
                   closed, parentDone, runReturned, runErr, polls>>

----------------------------------------------------------------------------
(* The channels, the caller and g.Wait() *)

\* a send that completes with no streamer receiving, as into a buffer
HandoverBuffered(t) ==
    /\ pc[t] = "send"
    /\ pc' = [pc EXCEPT ![t] = "range"]
    /\ rec' = [rec EXCEPT ![t] = NoRecord]
    /\ src' = [src EXCEPT ![t] = NoSample]
    /\ UNCHANGED <<poolVars, rem, vts, perr, spc, serr, batch, table, closed,
                   gerr, firstRep, ctxDone, parentDone, runReturned, runErr,
                   encountered, polls>>

\* case upsert<G>Metrics <- new<G>Metric: the channels are unbuffered, the
\* send completes when the streamer of the granularity receives
Handover(t) ==
    /\ pc[t] = "send"
    /\ spc[t.gran] = "recv"
    /\ ~closed[t.gran]
    /\ StreamTake(t.gran, rec[t])
    /\ pc' = [pc EXCEPT ![t] = "range"]
    /\ rec' = [rec EXCEPT ![t] = NoRecord]
    /\ src' = [src EXCEPT ![t] = NoSample]
    /\ UNCHANGED <<poolVars, rem, vts, perr, serr, table, closed,
                   gerr, firstRep, ctxDone, parentDone, runReturned, runErr,
                   encountered, polls>>

\* the caller cancels the context Run was given
ParentCancel ==
    /\ ~parentDone
    /\ ~runReturned
    /\ parentDone' = TRUE
    /\ ctxDone' = TRUE
    /\ UNCHANGED <<poolVars, pc, rem, vts, rec, src, perr, streamVars, histVars, gerr,
                   firstRep, runReturned, runErr, encountered, polls>>

AllDone ==
    /\ \A t \in started : pc[t] = "done"
    /\ \A g \in Streamers : spc[g] \in {"done", "off"}
WaitNoWait == TRUE
\* g.wg.Wait()
WaitReady == AllDone

\* return g.Wait()
Wait ==
    /\ ~runReturned
    /\ WaitReady
    /\ runReturned' = TRUE
    /\ runErr' = gerr
    /\ ctxDone' = TRUE
    /\ UNCHANGED <<poolVars, pc, rem, vts, rec, src, perr, streamVars, histVars, gerr,
                   firstRep, parentDone, encountered, polls>>

----------------------------------------------------------------------------
(* Specifications of the pipeline *)

\* the steps a scheduled goroutine takes by itself: a query on a cancelled
\* context returns, a select with a ready case proceeds
PollerStep(t) ==
    \/ ctxDone /\ QueryFails(t)
    \/ Range(t) \/ SendCancel(t) \/ SleepElapsed(t) \/ SleepCancel(t)

StreamerStep(g) == (StreamWrite(g) \/ StreamCancel(g)) /\ UNCHANGED histVars

Next ==
    \/ \E t \in started : QueryFails(t)
    \/ \E t \in started : QueryNil(t)
    \/ \E t \in started : QueryVector(t)
    \/ \E t \in started : Range(t)
    \/ \E t \in started : Handover(t) /\ UNCHANGED histVars
    \/ \E t \in started : SendCancel(t)
    \/ \E t \in started : SleepElapsed(t)
    \/ \E t \in started : SleepCancel(t)
    \/ \E g \in Streamers : StreamWrite(g) /\ UNCHANGED histVars
    \/ \E g \in Streamers : StreamCancel(g) /\ UNCHANGED histVars
    \/ ParentCancel
    \/ Wait

Backend(ss, ts) == [series |-> ss, times |-> ts]

\* Run with the two node pollers
Init == InitPipe(promQueriesNode, Streamers, Backend(PlainSeries, {59999})) /\ InitRecon /\ InitUpsert /\ InitPvc
Spec == Init /\ [][Next]_vars

\* every goroutine that can take a step is scheduled eventually
Fairness ==
    /\ \A t \in Pollers : WF_vars(PollerStep(t))
    /\ \A g \in Streamers : WF_vars(StreamerStep(g))
    /\ WF_vars(Wait)
\* the two node pollers, their streamer and the streamer of an idle channel
InitFair == InitPipe(promQueriesNode, {"node", "pod"}, Backend(PlainSeries, {59999})) /\ InitRecon /\ InitUpsert /\ InitPvc
FairSpec == InitFair /\ [][Next]_vars /\ Fairness

\* one poller of any kind and the streamer of its granularity, against every
\* kind of series; the other tasks of Run act on them through the context
InitPoll ==
    /\ \E t \in Pollers : InitPipe({t}, {t.gran}, Backend(AllSeries, {59999}))
    /\ InitRecon /\ InitUpsert /\ InitPvc
SpecPoll == InitPoll /\ [][Next]_vars

\* a send completes when its streamer stays ready to receive
Rendezvous == \A t \in Pollers : WF_vars(Handover(t) /\ UNCHANGED histVars)
\* one node poller, its streamer and the streamer of an idle channel
InitLive ==
    /\ InitPipe({PromQuery("node", "cpu.usage", "")}, {"node", "pod"},
                Backend(PlainSeries, {59999}))
    /\ InitRecon /\ InitUpsert /\ InitPvc
SpecLive == InitLive /\ [][Next]_vars /\ Fairness /\ Rendezvous

----------------------------------------------------------------------------
(* Results that are no vector *)

\* the query succeeds with a model.Value that is no model.Vector (a scalar,
\* a string, a matrix): the type assertion result.(model.Vector) panics
QueryNonVector(t) ==
    /\ pc[t] = "query"
    /\ ~ctxDone
    /\ polls < MaxPolls
    /\ polls' = polls + 1
    /\ pc' = [pc EXCEPT ![t] = "panic"]
    /\ UNCHANGED <<poolVars, rem, vts, rec, src, perr, streamVars, histVars, gerr,
                   firstRep, encountered, ctxDone, parentDone, runReturned, runErr>>

\* an unrecovered panic of one goroutine ends the process
Crashed == \E t \in Pollers : pc[t] = "panic"

NextResult ==
    \/ ~Crashed /\ Next
    \/ \E t \in started : ~Crashed /\ QueryNonVector(t)

SpecResult == InitPoll /\ [][NextResult]_vars

----------------------------------------------------------------------------
(* Stream on its own: a producer sends records and may close the channel *)

StreamRecords(g) ==
    { NewMetric(t, s, ms) :
        t \in {q \in Pollers : q.gran = g},
        s \in {x \in AllSeries[CHOOSE q \in Pollers : q.gran = g] : x.Value # NaN},
        ms \in {0, MinuteMillis} }

EnvSend(g) ==
    /\ spc[g] = "recv"
    /\ ~closed[g]
    /\ Len(received[g]) < MaxArrivals
    /\ \E r \in StreamRecords(g) :
          /\ StreamTake(g, r)
          /\ received' = [received EXCEPT ![g] = Append(received[g], r)]
    /\ UNCHANGED <<poolVars, pc, rem, vts, rec, src, perr, serr, table, written,
                   handed, closed, gerr, firstRep, ctxDone, parentDone, runReturned,
                   runErr, encountered, polls>>

EnvClose(g) ==
    /\ spc[g] # "off"
    /\ ~closed[g]
    /\ closed' = [closed EXCEPT ![g] = TRUE]
    /\ UNCHANGED <<poolVars, pc, rem, vts, rec, src, perr, spc, serr, batch, table,
                   histVars, gerr, firstRep, ctxDone, parentDone, runReturned,
                   runErr, encountered, polls>>

\* the history of the statements executed
Executed(g) ==
    /\ written' = [written EXCEPT ![g] =
                      IF spc'[g] = "recv" THEN Append(written[g], batch[g])
                      ELSE written[g]]
    /\ UNCHANGED <<received, handed>>

NextStream ==
    \/ \E g \in Streamers : EnvSend(g)
    \/ \E g \in Streamers : EnvClose(g)
    \/ \E g \in Streamers : StreamWrite(g) /\ Executed(g)
    \/ \E g \in Streamers : StreamClosed(g) /\ UNCHANGED histVars
    \/ \E g \in Streamers : StreamCancel(g) /\ UNCHANGED histVars
    \/ ParentCancel

InitStream == InitPipe({}, {"cluster"}, Backend(AllSeries, {0})) /\ InitRecon /\ InitUpsert /\ InitPvc
SpecStream == InitStream /\ [][NextStream]_vars

RECURSIVE Flatten(_)
Flatten(bs) == IF bs = <<>> THEN <<>> ELSE Head(bs) \o Flatten(Tail(bs))

IsPrefix(a, b) == Len(a) <= Len(b) /\ SubSeq(b, 1, Len(a)) = a

----------------------------------------------------------------------------
(* One poller and its streamer, with the history of the handovers *)

\* the streamer takes rec[t] from the channel: the record, the cycle it
\* belongs to and the series it was built from join the history
Delivered(t) ==
    /\ handed' = [handed EXCEPT ![t] =
                     Append(@, [cycle |-> polls, Metric |-> src[t].Metric, rec |-> rec[t]])]
    /\ received' = [received EXCEPT ![t.gran] = Append(@, rec[t])]
    /\ UNCHANGED written

NextCycle ==
    \/ \E t \in started : QueryFails(t)
    \/ \E t \in started : QueryNil(t)
    \/ \E t \in started : QueryVector(t)
    \/ \E t \in started : Range(t)
    \/ \E t \in started : Handover(t) /\ Delivered(t)
    \/ \E t \in started : SendCancel(t)
    \/ \E t \in started : SleepElapsed(t)
    \/ \E t \in started : SleepCancel(t)
    \/ \E g \in Streamers : StreamWrite(g) /\ Executed(g)
    \/ \E g \in Streamers : StreamCancel(g) /\ UNCHANGED histVars
    \/ ParentCancel
    \/ Wait

\* Run with one of the cluster pollers or the first node poller
CyclePollers == promQueriesCluster \cup {PromQuery("node", "cpu.usage", "")}
InitCycle ==
    /\ \E t \in CyclePollers : InitPipe({t}, {t.gran}, Backend(AllSeries, {59999}))
    /\ InitRecon /\ InitUpsert /\ InitPvc
SpecCycle == InitCycle /\ [][NextCycle]_vars

\* Run with the first node poller and a backend that knows two nodes
TwoNodes ==
    [q \in Pollers |->
        {Series([NoLabels EXCEPT !["node"] = "n1"], Num(1)),
         Series([NoLabels EXCEPT !["instance"] = "n2"], Num(1))}]
InitOrder ==
    /\ InitPipe({PromQuery("node", "cpu.usage", "")}, {"node"}, Backend(TwoNodes, {59999}))
    /\ InitRecon /\ InitUpsert /\ InitPvc
SpecOrder == InitOrder /\ [][NextCycle]_vars

----------------------------------------------------------------------------
(* PodSync.Sync *)

\* Sync returns e; failed holds the calls of this Sync that returned an error,
\* replay tells a delete that follows a failed delete for the same key
SyncReturn(key, exists, obj, mc, failed, e) ==
    /\ lastSync' = [key |-> key, exists |-> exists, obj |-> obj, metrics |-> mc,
                    failed |-> failed, err |-> e,
                    replay |-> /\ ~exists
                               /\ lastSync # NoSync
                               /\ ~lastSync.exists
                               /\ lastSync.key = key
                               /\ lastSync.err # Nil]
    /\ clean' = [clean EXCEPT ![key] = @ /\ exists /\ e = Nil]

\* Sync(key, obj, false): the three DELETE statements in the order of the
\* code, each of which may fail and end Sync
SyncDelete(key) ==
    LET k == SplitMetaNamespaceKey(key) IN
    /\ IF k.err # Nil
       THEN /\ SyncReturn(key, FALSE, NoPod, <<>>, {"SplitMetaNamespaceKey"}, k.err)
            /\ UNCHANGED <<pod, container_logs, pod_metrics>>
       ELSE \E f \in {"none", "pod", "container_logs", "pod_metrics"} :
            /\ pod' = IF f = "pod" THEN pod ELSE DeletePod(pod, k.namespace, k.name)
            /\ container_logs' =
                  IF f \in {"pod", "container_logs"} THEN container_logs
                  ELSE DeleteDependents(container_logs, k.namespace, k.name)
            /\ pod_metrics' =
                  IF f # "none" THEN pod_metrics
                  ELSE DeleteDependents(pod_metrics, k.namespace, k.name)
            /\ SyncReturn(key, FALSE, NoPod, <<>>, IF f = "none" THEN {} ELSE {f},
                          IF f = "none" THEN Nil ELSE DbErr(f))
    /\ UNCHANGED <<pipeVars, upsertVars, pvcVars>>

\* where Sync(key, obj, true) may return early: the call that fails and the
\* number of containers the loop it is in has dealt with before
FailPoints(cs, mc) ==
    {<<"none", 0>>, <<"NewPodFromK8s", 0>>, <<"pod", 0>>}
      \cup {<<"syncContainerLogs", i>> : i \in 0..(Len(cs) - 1)}
      \cup {<<"syncPodMetrics", j>> : j \in 0..(Len(mc) - 1)}

\* Sync(key, obj, true): the pod upsert, syncContainerLogs for every
\* container of the pod, syncPodMetrics for every container of the metrics
\* reply; the error of the metrics request itself is not looked at
SyncUpsert(obj, reply) ==
    LET key == <<obj.Namespace, obj.Name>>
        cs == obj.Containers
        mc == PodMetricsContainers(reply)
    IN
    /\ \E fp \in FailPoints(cs, mc) :
       LET f == fp[1]
           nl == CASE f \in {"NewPodFromK8s", "pod"} -> 0
                   [] f = "syncContainerLogs" -> fp[2]
                   [] OTHER -> Len(cs)
           nm == CASE f = "none" -> Len(mc)
                   [] f = "syncPodMetrics" -> fp[2]
                   [] OTHER -> 0
       IN
       \E logs \in [{cs[i] : i \in 1..nl} -> LogTexts] :
          /\ pod' = IF f = "NewPodFromK8s" THEN pod
                    ELSE IF f = "pod" THEN pod
                    ELSE UpsertPods(pod, {NewPodFromK8s(obj)})
          /\ container_logs' =
                UpsertDependents(container_logs,
                                 {ContainerLog(obj, cs[i], logs[cs[i]]) : i \in 1..nl})
          /\ pod_metrics' =
                UpsertDependents(pod_metrics, {PodMetrics(obj, mc[i]) : i \in 1..nm})
          /\ SyncReturn(key, TRUE, obj, mc,
                        (IF f = "none" THEN {} ELSE {f})
                          \cup (IF reply.err /\ f \in {"none", "syncPodMetrics"}
                                THEN {"PodMetricses.Get"} ELSE {}),
                        CASE f = "none" -> Nil
                          [] f \in {"NewPodFromK8s", "syncContainerLogs", "syncPodMetrics"} -> ApiErr(f)
                          [] OTHER -> DbErr(f))
    /\ UNCHANGED <<pipeVars, upsertVars, pvcVars>>

\* the pod and container streamers of Run store a telemetry record
TelemetryStored ==
    /\ \E q \in promQueriesPod \cup promQueriesContainer :
       \E s \in PlainSeries[q] :
          table' = [table EXCEPT ![q.gran] = Upsert(@, NewMetric(q, s, 0))]
    /\ lastSync' = NoSync
    /\ UNCHANGED <<started, tsdb, pc, rem, vts, rec, src, perr, spc, serr, batch,
                   received, written, handed, closed, gerr, firstRep, encountered,
                   ctxDone, parentDone, runReturned, runErr, polls,
                   pod, container_logs, pod_metrics, clean, upsertVars, pvcVars>>

NextPod ==
    \/ \E key \in SyncKeys : SyncDelete(key)
    \/ \E obj \in Pods, reply \in MetricsReplies : SyncUpsert(obj, reply)
    \/ TelemetryStored

InitPod == InitPipe({}, {}, Backend(PlainSeries, {0})) /\ InitRecon /\ InitUpsert /\ InitPvc
SpecPod == InitPod /\ [][NextPod]_vars

----------------------------------------------------------------------------
(* One series polled twice: the record of each poll and its upsert *)

\* the body of the range loop for the next sample of the series
PollSample ==
    /\ polled < 2
    /\ polled' = polled + 1
    /\ LET s == Series(sample.Metric, sample.Value[polled + 1]) IN
       made' = IF Skip(sample.q, s) THEN made
               ELSE Append(made, NewMetric(sample.q, s, sample.ms[polled + 1]))
    /\ UNCHANGED <<pipeVars, reconVars, pvcVars, sample, stored>>

\* the streamer's statement for the next record
StoreRecord ==
    /\ stored < Len(made)
    /\ stored' = stored + 1
    /\ table' = [table EXCEPT ![sample.q.gran] = Upsert(@, made[stored + 1])]
    /\ UNCHANGED <<started, tsdb, pc, rem, vts, rec, src, perr, spc, serr, batch,
                   received, written, handed, closed, gerr, firstRep, encountered,
                   ctxDone, parentDone, runReturned, runErr, polls,
                   reconVars, pvcVars, sample, made, polled>>

NextUpsert == PollSample \/ StoreRecord

InitSamples ==
    /\ InitPipe({}, {}, Backend(PlainSeries, {0}))
    /\ InitRecon
    /\ InitPvc
    /\ sample \in {x \in Samples : x.Metric \in Metrics(x.q)}
    /\ made = <<>>
    /\ polled = 0
    /\ stored = 0
SpecUpsert == InitSamples /\ [][NextUpsert]_vars

----------------------------------------------------------------------------
(* Pvc.Obtain *)

\* p.ObtainMeta(k8s)
ObtainMeta(p, raw) == [p EXCEPT !.Namespace = raw.Namespace, !.Name = raw.Name]

\* an identifier that also depends on the phase
PvcIdWithPhase(raw) == Checksum(raw.Namespace \o "/" \o raw.Name \o "/" \o raw.Phase)

\* p.Id
PvcId(raw) == Checksum(raw.Namespace \o "/" \o raw.Name)

\* the assignments of Obtain up to the guarded ones
ObtainPrimary(p, raw) ==
    [ObtainMeta(p, raw) EXCEPT
        !.Id = PvcId(raw),
        !.Phase = Snake(raw.Phase),
        !.VolumeName = raw.VolumeName,
        !.VolumeMode = IF raw.VolumeMode # NilPtr THEN raw.VolumeMode[1] ELSE @]

\* *pvc.Spec.StorageClassName is read when VolumeMode is not nil
StorageClassPanics(raw) == raw.VolumeMode # NilPtr /\ raw.StorageClassName = NilPtr

ObtainStorageClass(p, raw) ==
    [p EXCEPT !.StorageClass = IF raw.VolumeMode # NilPtr THEN raw.StorageClassName[1] ELSE @]

RECURSIVE ObtainConditions(_, _)
ObtainConditions(p, cs) ==
    IF cs = <<>> THEN p
    ELSE ObtainConditions(
            [p EXCEPT !.Conditions =
                Append(@, [PvcId |-> p.Id, Type |-> Head(cs).Type, Status |-> Head(cs).Status])],
            Tail(cs))

\* the orders in which range walks the label map
LabelOrders(ls) ==
    { o \in [1..Cardinality(ls) -> ls] :
        \A i, j \in 1..Cardinality(ls) : i # j => o[i] # o[j] }

RECURSIVE ObtainLabels(_, _)
ObtainLabels(p, ls) ==
    IF ls = <<>> THEN p
    ELSE LET labelId == Checksum(ToLower(Head(ls).Name \o ":" \o Head(ls).Value)) IN
         ObtainLabels(
            [p EXCEPT
                !.Labels = Append(@, [Id |-> labelId, Name |-> Head(ls).Name,
                                      Value |-> Head(ls).Value]),
                !.PvcLabels = Append(@, [PvcId |-> p.Id, LabelId |-> labelId])],
            Tail(ls))

\* p.Obtain(raw) on entity i
Obtain(i, raw) ==
    /\ ~panicked
    /\ obtains < MaxObtains
    /\ obtains' = obtains + 1
    /\ before' = [before EXCEPT ![i] = Primary(pvcs[i])]
    /\ IF StorageClassPanics(raw)
       THEN /\ pvcs' = [pvcs EXCEPT ![i] = ObtainPrimary(pvcs[i], raw)]
            /\ panicked' = TRUE
            /\ UNCHANGED hist
       ELSE /\ \E o \in LabelOrders(raw.Labels) :
                pvcs' = [pvcs EXCEPT ![i] =
                    ObtainLabels(
                        ObtainConditions(
                            ObtainStorageClass(ObtainPrimary(pvcs[i], raw), raw),
                            raw.Conditions),
                        o)]
            /\ hist' = [hist EXCEPT ![i] = Append(@, raw)]
            /\ UNCHANGED panicked
    /\ UNCHANGED <<pipeVars, reconVars, upsertVars, store>>

\* the factory hands out a new entity in place of entity i
Renew(i) ==
    /\ ~panicked
    /\ hist[i] # <<>>
    /\ pvcs' = [pvcs EXCEPT ![i] = NewPvc]
    /\ hist' = [hist EXCEPT ![i] = <<>>]
    /\ before' = [before EXCEPT ![i] = Primary(NewPvc)]
    /\ UNCHANGED <<pipeVars, reconVars, upsertVars, panicked, obtains, store>>

NextPvc ==
    \/ \E i \in Entities, raw \in RawPvcs : Obtain(i, raw)
    \/ \E i \in Entities : Renew(i)

InitObtain ==
    /\ InitPipe({}, {}, Backend(PlainSeries, {0}))
    /\ InitRecon
    /\ InitUpsert
    /\ InitPvc
SpecPvc == InitObtain /\ [][NextPvc]_vars

----------------------------------------------------------------------------
(* Pvc.Relations and the resync of one Pvc through them *)

\* the raw objects the resync is run on
ResyncPvcs ==
    [Namespace : {"default"}, Name : {"data", "logs"},
     Phase : {"Bound"}, VolumeName : {"pv-1"},
     VolumeMode : {NilPtr, Ptr("Filesystem")},
     StorageClassName : {NilPtr},
     Conditions : {<<>>, <<[Type |-> "Resizing", Status |-> "True"]>>},
     Labels : PvcLabelSets \cup {{[Name |-> "tier", Value |-> "db"]}}]

\* p.Relations(): the rows of each relation, its table and its ForeignKey_
Relations(p) ==
    << [Entities |-> p.Conditions, Table |-> "pvc_condition", ForeignKey |-> "PvcId"],
       [Entities |-> p.Labels,     Table |-> "label",         ForeignKey |-> "Value"],
       [Entities |-> p.PvcLabels,  Table |-> "pvc_label",     ForeignKey |-> "PvcId"] >>

\* the value of column fk of row r as the store compares it with an id: a
\* label value is text, which is the digest of no string
Column(r, fk) == IF fk = "Value" THEN <<"text", r[fk]>> ELSE r[fk]

\* a delete that ignores the foreign key
DeleteAll(rows, fk, id) == {}

\* DELETE FROM <table> WHERE <fk> = id
DeleteByForeignKey(rows, fk, id) == { r \in rows : Column(r, fk) # id }

\* the rows of the label dictionary are inserted if absent, one by one
RECURSIVE InsertIfAbsent(_, _)
InsertIfAbsent(rows, sq) ==
    IF sq = <<>> THEN rows
    ELSE InsertIfAbsent(
            IF \E r \in rows : r.Id = Head(sq).Id THEN rows ELSE rows \cup {Head(sq)},
            Tail(sq))

\* the rows of a relation are inserted after the delete
InsertRows(rel, rows) ==
    IF rel.Table = "label" THEN InsertIfAbsent(rows, rel.Entities)
    ELSE rows \cup { rel.Entities[k] : k \in 1..Len(rel.Entities) }

\* the primary row of the entity
PvcRow(p) ==
    [Id |-> p.Id, Namespace |-> p.Namespace, Name |-> p.Name, Phase |-> p.Phase,
     VolumeName |-> p.VolumeName, VolumeMode |-> p.VolumeMode,
     StorageClass |-> p.StorageClass]

\* the statements of one resync: the upsert of the primary row, then for
\* each relation the delete by foreign key and the insert of its rows
ResyncSteps == 1 + 2 * 3

ResyncStep(s, p, k) ==
    IF k = 1
    THEN [s EXCEPT !.pvc = { r \in @ : r.Id # p.Id } \cup {PvcRow(p)}]
    ELSE LET rel == Relations(p)[k \div 2] IN
         IF k % 2 = 0
         THEN [s EXCEPT ![rel.Table] = DeleteByForeignKey(@, rel.ForeignKey, p.Id)]
         ELSE [s EXCEPT ![rel.Table] = InsertRows(rel, @)]

\* the first n statements of the resync of p
RECURSIVE ResyncUpTo(_, _, _)
ResyncUpTo(s, p, n) ==
    IF n = 0 THEN s ELSE ResyncStep(ResyncUpTo(s, p, n - 1), p, n)

\* the entity a new Pvc becomes by Obtain(raw), the label map walked in order o
Obtained(raw, o) ==
    ObtainLabels(
        ObtainConditions(ObtainStorageClass(ObtainPrimary(NewPvc, raw), raw),
                         raw.Conditions),
        o)

\* the upsert handling of one Pvc: a new entity, Obtain, the primary row and
\* the relations; a statement that fails ends it after done statements
Resync(raw) ==
    /\ ~panicked
    /\ IF StorageClassPanics(raw)
       THEN /\ panicked' = TRUE
            /\ UNCHANGED store
       ELSE /\ \E o \in LabelOrders(raw.Labels), done \in 0..ResyncSteps :
                LET p == Obtained(raw, o) IN
                store' = [ResyncUpTo(store, p, done) EXCEPT
                             !.last = [Id |-> p.Id, done |-> done]]
            /\ UNCHANGED panicked
    /\ UNCHANGED <<pipeVars, reconVars, upsertVars, pvcs, hist, before, obtains>>

NextResync == \E raw \in ResyncPvcs : Resync(raw)

SpecResync == InitObtain /\ [][NextResync]_vars

----------------------------------------------------------------------------
(* Claims about PromMetricSync.Run *)

PollerOf(name) == CHOOSE t \in Pollers : TaskName(t) = name
\* the error the task called name returned
ErrOf(name) == IF name \in Streamers THEN serr[name] ELSE perr[PollerOf(name)]

\* C1 as stated: whenever the query of a poller has failed and Run has
\* returned, the error Run returned is that query failure.
C1_Original ==
    runReturned => \A t \in started : perr[t] = QueryErr(t) => runErr = QueryErr(t)

\* C1 amended: once the query of a poller has failed, Run eventually returns,
\* with an error that is not nil; it is that query failure when the poller
\* is the first task of the group to return an error.
C1_Amended ==
    \A t \in promQueriesNode :
        (perr[t] = QueryErr(t)) ~>
            (/\ runReturned
             /\ runErr # Nil
             /\ firstRep = TaskName(t) => runErr = QueryErr(t))

C1_Witness ==
    /\ runReturned
    /\ \E t \in started : perr[t] = QueryErr(t) /\ firstRep = TaskName(t)
                          /\ runErr = QueryErr(t)
    /\ \E g \in Streamers : serr[g] = Canceled

\* C2 as stated: Run returns after every task has exited, with the first
\* error that is no cancellation error.
C2_Original ==
    runReturned => AllDone /\ (encountered # Nil => runErr = encountered)

\* C2 amended: Run returns after every task has exited, with the first
\* error a task returned, a cancellation error or not; no later error
\* replaces it.
C2_Amended ==
    runReturned =>
        /\ AllDone
        /\ IF firstRep = "-" THEN runErr = Nil
           ELSE runErr = ErrOf(firstRep) /\ runErr # Nil

C2_Witness ==
    /\ runReturned
    /\ \E t \in started : perr[t] \notin {runErr, Nil}
    /\ \E g \in Streamers : serr[g] \notin {runErr, Nil}

\* C3: once the context is cancelled every task exits and Run returns; a
\* poller that offers a record to a streamer that is gone does not stay
\* blocked.
C3_CancelUnblocks == ctxDone ~> (AllDone /\ runReturned)

C3_Witness ==
    /\ runReturned
    /\ parentDone
    /\ \E t \in started : perr[t] = Canceled /\ serr[t.gran] = WriteErr(t.gran)

\* C4 as stated: no record is offered to a streamer for a sample that is
\* NaN or, at node, pod and container granularity, for a series without the
\* label that names its entity.
Attributable(g, m) ==
    CASE g = "cluster" -> TRUE
      [] g = "node" -> m["node"] # "" \/ m["instance"] # ""
      [] g = "pod" -> m["pod"] # ""
      [] g = "container" -> m["container"] # ""

C4_Claim ==
    /\ \A t \in started :
          pc[t] = "send" => src[t].Value # NaN /\ Attributable(t.gran, src[t].Metric)
    /\ \A g \in Streamers : \A x \in table[g] : x.Value # NaN

\* the query of poller t succeeds with a nil result, an empty vector or a
\* result that is no vector
EmptyOrNonNumeric(t) ==
    \/ QueryNil(t)
    \/ QueryVector(t) /\ rem'[t] = 0
    \/ QueryNonVector(t)

\* C12: a query that succeeds with an empty or non-numeric result leaves
\* the poller running without an error and without a record to send.
C12_Claim ==
    [][\A t \in started :
          EmptyOrNonNumeric(t) =>
              /\ pc'[t] \in {"query", "range", "sleep"}
              /\ perr'[t] = Nil
              /\ rec'[t] = NoRecord]_vars

\* C13: within one poll cycle of one query descriptor, records built from
\* distinct series have distinct keys.
C13_Claim ==
    \A t \in started : \A i, j \in 1..Len(handed[t]) :
        (/\ handed[t][i].cycle = handed[t][j].cycle
         /\ handed[t][i].Metric # handed[t][j].Metric)
           => Key(handed[t][i].rec) # Key(handed[t][j].rec)

\* C14: a poller comes to issue a query again only out of its 55 second
\* sleep: no step that follows a query of the poller, a skipped cycle
\* included, leaves it about to query without that wait.
C14_Claim ==
    [][\A t \in started :
          (pc'[t] = "query" /\ (pc[t] # "query" \/ QueryNil(t)))
             => pc[t] = "sleep"]_vars

Recs(h) == [i \in 1..Len(h) |-> h[i].rec]

\* C17: the records a poller has handed over are, in the same order, the
\* records its streamer has received (written or in its batch); a poller
\* that is about to query or sleeping holds no record of the cycle before;
\* and the cycles of the records handed over never go back.
C17_Ordering ==
    \A t \in started :
        /\ Flatten(written[t.gran]) \o batch[t.gran] = Recs(handed[t])
        /\ received[t.gran] = Recs(handed[t])
        /\ pc[t] \in {"query", "sleep"} =>
              /\ rec[t] = NoRecord
              /\ \A i \in 1..Len(handed[t]) : handed[t][i].cycle <= polls
        /\ \A i, j \in 1..Len(handed[t]) :
              i < j => handed[t][i].cycle <= handed[t][j].cycle

C17_Witness ==
    \E t \in started :
        /\ Len(handed[t]) >= 3
        /\ handed[t][1].cycle < handed[t][3].cycle
        /\ handed[t][1].Metric # handed[t][2].Metric
        /\ written[t.gran] # <<>>
        /\ pc[t] = "sleep"

----------------------------------------------------------------------------
(* Claims about the Batched Upsert Streamer *)

WriteFailed(g) == spc[g] = "done" /\ serr[g] = WriteErr(g)

\* C5 as stated: when a batch write has failed and Stream has returned that
\* error, the records written are exactly the records received.
C5_Original ==
    \A g \in Streamers : WriteFailed(g) => Flatten(written[g]) = received[g]

\* C5 amended: when a batch write has failed, Stream has stopped with that
\* error and the records written are exactly the records received before
\* the batch that failed; the records left unwritten are those of that
\* batch, at least one and at most the maximum batch size.
C5_Amended ==
    \A g \in Streamers :
        WriteFailed(g) =>
            /\ Flatten(written[g]) \o batch[g] = received[g]
            /\ Len(batch[g]) \in 1..MaxBatch
            /\ \A r \in table[g] : \E i \in 1..Len(Flatten(written[g])) :
                  Key(Flatten(written[g])[i]) = Key(r)

C5_Witness ==
    \E g \in Streamers :
        WriteFailed(g) /\ Len(written[g]) >= 1 /\ Len(batch[g]) < MaxBatch

\* C6: every statement carries between one and MaxBatch records, the
\* statements executed are a prefix of the arrivals in arrival order, and
\* when Stream returns nil every record received has been written.
C6_Batches ==
    \A g \in Streamers :
        /\ \A i \in 1..Len(written[g]) : Len(written[g][i]) \in 1..MaxBatch
        /\ IsPrefix(Flatten(written[g]), received[g])
        /\ spc[g] = "done" /\ serr[g] = Nil => Flatten(written[g]) = received[g]

C6_Witness ==
    \E g \in Streamers :
        /\ spc[g] = "done" /\ serr[g] = Nil
        /\ Len(written[g]) >= 2
        /\ Len(written[g][Len(written[g])]) < MaxBatch
        /\ Flatten(written[g]) = received[g]

----------------------------------------------------------------------------
(* Claims about PodSync.Sync *)

\* the rows of the telemetry tables that belong to pod ns/n
TelemetryOf(ns, n) ==
    {x \in table["pod"] : x.Id = Sha1(ns \o "/" \o n)}
      \cup {x \in table["container"] :
              \E c \in ContainerNames : x.Id = Sha1(ns \o "/" \o n \o "/" \o c)}

NoRowsOf(ns, n) ==
    /\ \A x \in pod : ~(x.namespace = ns /\ x.name = n)
    /\ \A x \in container_logs : ~(x.namespace = ns /\ x.pod_name = n)
    /\ \A x \in pod_metrics : ~(x.namespace = ns /\ x.pod_name = n)

DeleteReturnedNil ==
    /\ lastSync # NoSync
    /\ ~lastSync.exists
    /\ lastSync.err = Nil

\* C7: after Sync has processed a delete notification for namespace/name
\* and returned nil, the store holds no pod row, no container_logs row, no
\* pod_metrics row and no telemetry row for that pod.
C7_Claim ==
    DeleteReturnedNil =>
        /\ NoRowsOf(lastSync.key[1], lastSync.key[2])
        /\ TelemetryOf(lastSync.key[1], lastSync.key[2]) = {}

UpsertsReturnedNil ==
    /\ lastSync # NoSync
    /\ lastSync.exists
    /\ lastSync.err = Nil
    /\ clean[lastSync.key]

\* C8: after a sequence of upsert notifications for one key that all
\* returned nil, the pod row holds the fields of the last notification and
\* the dependent rows of the key are those of the last notification only.
C8_Claim ==
    UpsertsReturnedNil =>
        LET o == lastSync.obj IN
        /\ {x \in pod : PodKey(x) = lastSync.key} = {NewPodFromK8s(o)}
        /\ {x.container_name : x \in {y \in container_logs :
                  y.namespace = o.Namespace /\ y.pod_name = o.Name}}
             = {o.Containers[i] : i \in 1..Len(o.Containers)}

\* C11: whenever a call Sync made while handling a notification returned
\* an error (the key split, a delete, the pod upsert, the log fetch, the
\* usage-snapshot fetch or a snapshot upsert), Sync returns an error.
C11_Claim ==
    (lastSync # NoSync /\ lastSync.failed # {}) => lastSync.err # Nil

\* C15: a delete notification removes the dependent rows before the pod
\* row: whatever Sync returned for it, no container_logs or pod_metrics row
\* is left for a pod whose row in pod is gone.
C15_Claim ==
    (lastSync # NoSync /\ ~lastSync.exists /\ Len(lastSync.key) = 2) =>
        LET ns == lastSync.key[1]
            n == lastSync.key[2]
        IN  (\A x \in pod : ~(x.namespace = ns /\ x.name = n)) =>
               /\ \A x \in container_logs : ~(x.namespace = ns /\ x.pod_name = n)
               /\ \A x \in pod_metrics : ~(x.namespace = ns /\ x.pod_name = n)

----------------------------------------------------------------------------
(* Claims about the telemetry records and their upsert *)

Minute(ms) == ms \div MinuteMillis

SameMinute ==
    /\ sample.ms[1] >= 0
    /\ sample.ms[2] >= 0
    /\ Minute(sample.ms[1]) = Minute(sample.ms[2])

C16_Claim ==
    Len(made) = polled =>
        \A i \in 1..Len(made) :
            /\ made[i].Timestamp % MinuteMillis = 0
            /\ made[i].Timestamp <= sample.ms[i]
            /\ sample.ms[i] - made[i].Timestamp < MinuteMillis

----------------------------------------------------------------------------
(* Claims about Pvc.Obtain *)

Last(sq) == sq[Len(sq)]

\* C10: mapping a raw object twice with Obtain, into one entity or into two
\* new ones, gives the same identifier and the same Phase, VolumeName,
\* VolumeMode and StorageClass, and the identifier of two mapped objects is
\* the same whenever their namespace and name are.
C10_ObtainTwice ==
    ~panicked =>
        /\ \A i, j \in Entities :
              (/\ hist[i] # <<>>
               /\ hist[j] # <<>>
               /\ Last(hist[i]).Namespace = Last(hist[j]).Namespace
               /\ Last(hist[i]).Name = Last(hist[j]).Name)
                 => pvcs[i].Id = pvcs[j].Id
        /\ \A i \in Entities :
              (Len(hist[i]) >= 2 /\ hist[i][Len(hist[i]) - 1] = Last(hist[i]))
                 => Primary(pvcs[i]) = before[i]
        /\ \A i, j \in Entities :
              (Len(hist[i]) = 1 /\ hist[i] = hist[j])
                 => Primary(pvcs[i]) = Primary(pvcs[j])

C10_Witness ==
    /\ ~panicked
    /\ Len(hist[1]) = 2
    /\ hist[1][1] = hist[1][2]
    /\ hist[1][1].VolumeMode # NilPtr
    /\ Len(pvcs[1].Conditions) = 2
    /\ Primary(pvcs[1]) = before[1]
    /\ pvcs[1].StorageClass = "standard"

\* the value a string field takes from an optional field of the raw object
FromPtr(ptr) == IF ptr = NilPtr THEN "" ELSE ptr[1]

\* C18: Obtain completes for every combination of present and absent
\* optional fields, and on a new entity VolumeMode is the raw volume mode
\* exactly when one is set and StorageClass the raw storage class name
\* exactly when one is set.
C18_Claim ==
    /\ ~panicked
    /\ \A i \in Entities :
          Len(hist[i]) = 1 =>
              /\ pvcs[i].VolumeMode = FromPtr(hist[i][1].VolumeMode)
              /\ pvcs[i].StorageClass = FromPtr(hist[i][1].StorageClassName)

\* C19: label rows of distinct (name, value) pairs have distinct ids.
C19_Claim ==
    \A i \in Entities : \A a, b \in 1..Len(pvcs[i].Labels) :
        LET la == pvcs[i].Labels[a]
            lb == pvcs[i].Labels[b]
        IN  <<la.Name, la.Value>> # <<lb.Name, lb.Value>> => la.Id # lb.Id

\* the rows a sequence of relation rows holds, as a set
RowsOf(sq) == { sq[k] : k \in 1..Len(sq) }

\* C20: after any number of Obtain calls on an entity, Conditions holds
\* exactly one row per condition of the last raw object, Labels and PvcLabels
\* exactly one row per label of it, every Condition and PvcLabel row carries
\* the entity's id, and every PvcLabel row's LabelId is the id of a Labels row.
C20_Claim ==
    \A i \in Entities :
        (~panicked /\ hist[i] # <<>>) =>
            LET raw == Last(hist[i])
                p == pvcs[i]
            IN  /\ Len(p.Conditions) = Len(raw.Conditions)
                /\ \A k \in 1..Len(p.Conditions) :
                       /\ k <= Len(raw.Conditions)
                       /\ p.Conditions[k].Status = raw.Conditions[k].Status
                       /\ p.Conditions[k].PvcId = p.Id
                /\ Len(p.Labels) = Cardinality(raw.Labels)
                /\ { [Name |-> l.Name, Value |-> l.Value] : l \in RowsOf(p.Labels) }
                       = raw.Labels
                /\ Len(p.PvcLabels) = Cardinality(raw.Labels)
                /\ \A l \in RowsOf(p.PvcLabels) :
                       /\ l.PvcId = p.Id
                       /\ l.LabelId \in { r.Id : r \in RowsOf(p.Labels) }

\* C21: a resync of one Pvc changes, among the condition and association
\* rows, only those of that Pvc's id, and removes no row of the label table.
C21_Claim ==
    [][ store' # store =>
          LET id == store'.last.Id IN
          /\ store.label \subseteq store'.label
          /\ \A t \in {"pvc", "pvc_condition", "pvc_label"} :
                LET key == IF t = "pvc" THEN "Id" ELSE "PvcId" IN
                { r \in store[t] : r[key] # id } = { r \in store'[t] : r[key] # id } ]_vars

\* a complete resync has left a label row that no association row refers to,
\* while another Pvc has its own condition and association rows
C21_Witness ==
    /\ store.last.done = ResyncSteps
    /\ \E l \in store.label : \A a \in store.pvc_label : a.LabelId # l.Id
    /\ \E c \in store.pvc_condition : c.PvcId # store.last.Id
    /\ \E a \in store.pvc_label : a.PvcId # store.last.Id

\* C22: no channel is ever closed; a task that has exited returned an error,
\* and so did Run when it has returned, and either happens only after a task
\* has failed or the caller's context was cancelled; until then every
\* poller comes back to its query from wherever it is in its loop.
C22_NoExit ==
    /\ \A g \in Streamers : ~closed[g]
    /\ \A t \in started :
          pc[t] = "done" => perr[t] # Nil /\ (encountered # Nil \/ parentDone)
    /\ \A g \in Streamers :
          spc[g] = "done" => serr[g] # Nil /\ (encountered # Nil \/ parentDone)
    /\ runReturned => runErr # Nil /\ (encountered # Nil \/ parentDone)
    /\ (encountered = Nil /\ ~parentDone) => ~ctxDone

C22_Claim ==
    /\ []C22_NoExit
    /\ \A t \in Pollers :
          (t \in started /\ pc[t] \in {"range", "send", "sleep"}) ~>
              (pc[t] = "query" \/ encountered # Nil \/ parentDone)

\* nothing has failed and nobody has cancelled: every poller is in its loop
\* after the last query the backend answers, with rows written
C22_Witness ==
    /\ encountered = Nil /\ ~parentDone /\ ~runReturned
    /\ polls = MaxPolls
    /\ \A t \in started : pc[t] = "query"
    /\ \E g \in Streamers : table[g] # {}

NoRowsIn(p, cl, pm, ns, n) ==
    /\ \A x \in p : ~(x.namespace = ns /\ x.name = n)
    /\ \A x \in cl : ~(x.namespace = ns /\ x.pod_name = n)
    /\ \A x \in pm : ~(x.namespace = ns /\ x.pod_name = n)

\* C23: a Sync for a delete notification returns an error whenever one of
\* its deletes failed; when it returns nil, after whatever failed deliveries
\* before, no pod, container_logs or pod_metrics row of the key is left; and
\* for a key that has no such row it changes none of the three tables.
C23_Claim ==
    [][ (lastSync' # NoSync /\ ~lastSync'.exists) =>
          LET ns == lastSync'.key[1]
              n == lastSync'.key[2]
          IN  /\ lastSync'.failed # {} => lastSync'.err # Nil
              /\ lastSync'.err = Nil =>
                    /\ Len(lastSync'.key) = 2
                    /\ NoRowsIn(pod', container_logs', pod_metrics', ns, n)
              /\ NoRowsIn(pod, container_logs, pod_metrics, ns, n) =>
                    UNCHANGED <<pod, container_logs, pod_metrics>> ]_vars

\* a delete notification whose Sync failed has been delivered again and
\* Sync has returned nil for it
C23_Witness ==
    /\ lastSync # NoSync
    /\ ~lastSync.exists
    /\ lastSync.replay
    /\ lastSync.err = Nil
    /\ NoRowsOf(lastSync.key[1], lastSync.key[2])

====
